---- MODULE Spec2Model ----
(***************************************************************************)
(* Streaming response pipeline of the Gemini Spark chat client.            *)
(*                                                                         *)
(*   src/App.tsx                  Transcript Controller (App component)    *)
(*   src/services/geminiService.ts  Streaming Orchestrator, Source         *)
(*                                  Extractor, Attachment Encoder          *)
(*   src/components/InputArea.tsx   send gate of the input box, and the    *)
(*                                  Markdown Renderer (MessageBubble)      *)
(*                                                                         *)
(* Conventions.                                                            *)
(*  - A string of the program is a sequence of one-character strings.      *)
(*  - An optional value (a field that may be undefined) is a sequence of   *)
(*    length 0 (undefined) or 1 (the value): None, Some(v).                *)
(*  - Turn ids are decimal renderings of Date.now(); number-to-string is   *)
(*    injective, so an id is kept as the number, and the welcome turn's    *)
(*    id 'init-1', which is no decimal rendering, is the number InitId.    *)
(*  - The timestamp field of a turn is never read by the pipeline and is   *)
(*    left out of the Turn record.                                         *)
(*  - React state (messages, isLoading) is the committed state; a handler  *)
(*    started by a user event closes over the state of the latest render,  *)
(*    and keeps that closure across its awaits.                            *)
(*                                                                         *)
(* Specifications.                                                         *)
(*   Spec         the controller's sessions; the clock may step between    *)
(*                the two reads of Date.now() of one handler run.          *)
(*   SpecRace     the same actions with more sends, for overlapping        *)
(*                handler runs; fewer fragments, no step inside a run.     *)
(*   SpecService  one run of streamGeminiResponse over every history,      *)
(*                attachment, config and fragment sequence in the bounds.  *)
(*   SpecRender   renderMarkdown over every text made of the markup        *)
(*                pieces in the bounds, re-rendered as the text grows.     *)
(***************************************************************************)
EXTENDS Integers, Sequences, FiniteSets, TLC

VARIABLES messages, isLoading, now, calls, svc, md

vars == <<messages, isLoading, now, calls, svc, md>>

(* ---------------------------------------------------------------- bounds *)
\* Spec: the exchanges of a session.
MaxSends == 1
MaxClock == 1
MaxFrags == 2
\* SpecRace: overlapping sends, with few fragments and no clock step inside a handler.
MaxRaceSends == 3
MaxRaceClock == 2
MaxRaceFrags == 1
\* SpecService: one run of the orchestrator over every input.
MaxHistory == 2
MaxSvcFrags == 3
\* SpecRender: the deltas a rendered text is made of.
MaxDeltas == 5

(* ------------------------------------------------------------ primitives *)
None == <<>>
Some(v) == <<v>>

\* JavaScript truthiness of an optional boolean (undefined and false are falsy).
Truthy(opt) == opt = Some(TRUE)

USER == "user"
MODEL == "model"

InitId == -1

WelcomeText == <<"H">>
ClearedText == <<"C">>
ErrorText == <<"E">>

\* String.prototype.trim over the one-character alphabet: " " and "\n" are whitespace.
IsSpace(ch) == ch \in {" ", "\n"}

RECURSIVE TrimStart(_)
TrimStart(s) ==
  IF s # <<>> /\ IsSpace(Head(s)) THEN TrimStart(Tail(s)) ELSE s

RECURSIVE TrimEnd(_)
TrimEnd(s) ==
  IF s # <<>> /\ IsSpace(s[Len(s)]) THEN TrimEnd(SubSeq(s, 1, Len(s) - 1)) ELSE s

Trim(s) == TrimEnd(TrimStart(s))

\* Array.prototype.indexOf on a string: 0-based index of the first ch, -1 if absent.
RECURSIVE IndexFrom(_, _, _)
IndexFrom(s, ch, i) ==
  IF i > Len(s) THEN -1
  ELSE IF s[i] = ch THEN i - 1
  ELSE IndexFrom(s, ch, i + 1)

indexOf(s, ch) == IndexFrom(s, ch, 1)

\* String.prototype.substring(a, b) with 0-based, end-exclusive indices.
substring(s, a, b) ==
  LET lo == IF a < b THEN a ELSE b
      hi == IF a < b THEN b ELSE a
      l == IF lo < 0 THEN 0 ELSE lo
      h == IF hi > Len(s) THEN Len(s) ELSE hi
  IN SubSeq(s, l + 1, h)

(* ------------------------------------------------- attachment (data URL) *)
\* The data URL a FileReader yields for the selected image:
\* "data:" mime ";base64," payload, with mime "m" and payload "Q".
ImageDataUrl == <<"d", ":", "m", ";", "b", ",", "Q">>

fileToGenerativePart(file) == ImageDataUrl

extractBase64Data(dataUrl) ==
  LET k == indexOf(dataUrl, ",")
      rest == SubSeq(dataUrl, k + 2, Len(dataUrl))
      k2 == indexOf(rest, ",")
  IN IF k = -1 THEN None
     ELSE Some(IF k2 = -1 THEN rest ELSE SubSeq(rest, 1, k2))

extractMimeType(dataUrl) ==
  substring(dataUrl, indexOf(dataUrl, ":") + 1, indexOf(dataUrl, ";"))

(* ------------------------------------------------------------------ turns *)
\* ChatMessage (types.ts, as used in App.tsx and geminiService.ts).
Turn(id, role, text, image, isStreaming, modelConfig, groundingSources) ==
  [id |-> id, role |-> role, text |-> text, image |-> image,
   isStreaming |-> isStreaming, modelConfig |-> modelConfig,
   groundingSources |-> groundingSources]

WelcomeTurn == Turn(InitId, MODEL, WelcomeText, None, None, None, None)

ClearedTurn(t) == Turn(t, MODEL, ClearedText, None, None, None, None)

NewUserMessage(t, message, imageBase64) ==
  Turn(t, USER, message, imageBase64, None, None, None)

InitialBotMessage(botMessageId, config) ==
  Turn(botMessageId, MODEL, <<>>, None, Some(TRUE), Some(config), Some(<<>>))

\* The ModelConfig snapshot the controller's sessions are explored with.
Configs == { [useSearch |-> TRUE, useThinking |-> FALSE] }

(* ------------------------------------------------------ source extractor *)
\* A grounding chunk: web is undefined or {title?, uri?}.
WebChunk(title, uri) == [web |-> Some([title |-> title, uri |-> uri])]
OtherChunk == [web |-> None]

\* A response fragment: text is undefined or a string; candidates is undefined
\* or a list whose first entry has groundingMetadata undefined or
\* {groundingChunks: undefined or a list}.
Fragment(text, candidates) == [text |-> text, candidates |-> candidates]
Cited(chunks) ==
  Some(<< [groundingMetadata |-> Some([groundingChunks |-> Some(chunks)])] >>)

\* response.candidates?.[0]?.groundingMetadata?.groundingChunks
groundingChunksOf(response) ==
  IF response.candidates = None THEN None
  ELSE IF response.candidates[1] = <<>> THEN None
  ELSE IF response.candidates[1][1].groundingMetadata = None THEN None
  ELSE response.candidates[1][1].groundingMetadata[1].groundingChunks

WebSourceTitle == <<"W">>

\* chunk.web.title ?? 'Web Source': the fallback for an undefined title only.
titleNullish(title) == IF title = None THEN WebSourceTitle ELSE title[1]

\* chunk.web.title || 'Web Source': undefined and '' are falsy.
titleOr(title) ==
  IF title = None \/ title = Some(<<>>) THEN WebSourceTitle ELSE title[1]

RECURSIVE pushWebSources(_, _)
pushWebSources(sources, chunks) ==
  IF chunks = <<>> THEN sources
  ELSE LET chunk == Head(chunks)
       IN pushWebSources(
            IF chunk.web # None
              THEN Append(sources, [title |-> titleOr(chunk.web[1].title),
                                    uri |-> chunk.web[1].uri])
              ELSE sources,
            Tail(chunks))

extractGroundingSources(response) ==
  LET groundingChunks == groundingChunksOf(response)
  IN IF groundingChunks # None
       THEN pushWebSources(<<>>, groundingChunks[1])
       ELSE <<>>

(* ------------------------------------------------- streaming orchestrator *)
\* One entry of the history handed to ai.chats.create.
textPart(t) == <<"text", t>>
inlineDataPart(dataUrl) ==
  <<"inlineData", extractMimeType(dataUrl), extractBase64Data(dataUrl)>>

wireOf(msg) ==
  [role |-> IF msg.role = USER THEN "user" ELSE "model",
   parts |-> IF msg.image # None
               THEN <<textPart(msg.text), inlineDataPart(msg.image[1])>>
               ELSE <<textPart(msg.text)>>]

\* A slip of line 65: the filter keeps every turn.
keepEvery(msg) == TRUE

\* .filter(msg => !msg.isStreaming)
keepNotStreaming(msg) == ~Truthy(msg.isStreaming)

mapWire(seq) == [i \in DOMAIN seq |-> wireOf(seq[i])]

chatHistoryOf(history) == mapWire(SelectSeq(history, keepNotStreaming))

toolsOf(config) == IF config.useSearch THEN <<"googleSearch">> ELSE <<>>

ThinkingBudgetOn == 1024
ThinkingBudgetOff == 0
thinkingConfigOf(config) ==
  IF config.useThinking THEN ThinkingBudgetOn ELSE ThinkingBudgetOff

messagePartsOf(newMessage, imageContext) ==
  IF imageContext # None
    THEN <<textPart(newMessage), inlineDataPart(imageContext[1])>>
    ELSE <<textPart(newMessage)>>

\* message: parts.length === 1 ? parts[0].text : parts
outgoingOf(parts) ==
  IF Len(parts) = 1 THEN <<"bare", parts[1][2]>> ELSE <<"parts", parts>>

\* Everything streamGeminiResponse hands to the endpoint before the first await.
requestOf(history, newMessage, imageContext, config) ==
  [history |-> chatHistoryOf(history),
   tools |-> toolsOf(config),
   thinkingBudget |-> thinkingConfigOf(config),
   message |-> outgoingOf(messagePartsOf(newMessage, imageContext))]

\* if (text): a defined, non-empty string.
hasText(c) == c.text # None /\ c.text[1] # <<>>

\* A slip of line 120: onChunk handed the running total instead of the delta.
consumeFragmentCumulative(finalResponseText, c) ==
  LET sources == extractGroundingSources(c)
      total == IF hasText(c) THEN finalResponseText \o c.text[1] ELSE finalResponseText
  IN [finalResponseText |-> total,
      onChunk |-> IF hasText(c) THEN <<total>> ELSE <<>>,
      sources |-> sources,
      onMetadata |-> IF Len(sources) > 0 THEN <<sources>> ELSE <<>>]

\* One iteration of the for-await loop: the new accumulator, the list that
\* extractGroundingSources returned, and the callback invocations it makes,
\* each a list of zero or one argument.
consumeFragment(finalResponseText, c) ==
  LET sources == extractGroundingSources(c)
  IN [finalResponseText |->
        IF hasText(c) THEN finalResponseText \o c.text[1] ELSE finalResponseText,
      onChunk |-> IF hasText(c) THEN <<c.text[1]>> ELSE <<>>,
      sources |-> sources,
      onMetadata |-> IF Len(sources) > 0 THEN <<sources>> ELSE <<>>]

(* --------------------------------------------------- transcript controller *)
\* A slip of line 86: the delta assigned instead of accumulated.
appendChunkAssigned(fullText, chunkText) == chunkText

\* fullText += chunkText
appendChunk(fullText, chunkText) == fullText \o chunkText

\* collectedSources.find(cs => cs.uri === s.uri)
findByUri(collectedSources, s) ==
  \E i \in DOMAIN collectedSources : collectedSources[i].uri = s.uri

\* A slip of lines 97-101: every incoming source pushed, duplicate or not.
mergeSourcesPushAll(collectedSources, sources) == collectedSources \o sources

\* sources.forEach(s => { if (!find) collectedSources.push(s) })
RECURSIVE mergeSources(_, _)
mergeSources(collectedSources, sources) ==
  IF sources = <<>> THEN collectedSources
  ELSE mergeSources(
         IF ~findByUri(collectedSources, Head(sources))
           THEN Append(collectedSources, Head(sources))
           ELSE collectedSources,
         Tail(sources))

\* prev.map(msg => msg.id === botMessageId ? { ...msg, text: fullText } : msg)
setText(prev, botMessageId, fullText) ==
  [i \in DOMAIN prev |->
     IF prev[i].id = botMessageId
       THEN [prev[i] EXCEPT !.text = fullText]
       ELSE prev[i]]

\* prev.map(msg => ... ? { ...msg, groundingSources: collectedSources } : msg)
setSources(prev, botMessageId, collectedSources) ==
  [i \in DOMAIN prev |->
     IF prev[i].id = botMessageId
       THEN [prev[i] EXCEPT !.groundingSources = Some(collectedSources)]
       ELSE prev[i]]

\* prev.map(msg => ... ? { ...msg, isStreaming: false } : msg)
finalizeMessage(prev, botMessageId) ==
  [i \in DOMAIN prev |->
     IF prev[i].id = botMessageId
       THEN [prev[i] EXCEPT !.isStreaming = Some(FALSE)]
       ELSE prev[i]]

\* prev.map(msg => ... ? { ...msg, text: "**Error**...", isStreaming: false } : msg)
errorMessage(prev, botMessageId) ==
  [i \in DOMAIN prev |->
     IF prev[i].id = botMessageId
       THEN [prev[i] EXCEPT !.text = ErrorText, !.isStreaming = Some(FALSE)]
       ELSE prev[i]]

\* The locals of one invocation of handleSendMessage.
\*   pc          "reading" (awaiting fileToGenerativePart), "streaming"
\*               (awaiting streamGeminiResponse), "done", "failed", "aborted"
\*   closure     the messages of the render the handler closed over
\*   chunkLog, metaLog   the arguments of the onChunk / onMetadata calls so far
FreshCall(pc, closure, message, config) ==
  [pc |-> pc, closure |-> closure, message |-> message, config |-> Some(config),
   botMessageId |-> None, fullText |-> <<>>, collectedSources |-> <<>>,
   request |-> None, finalResponseText |-> <<>>, fragments |-> 0,
   chunkLog |-> <<>>, metaLog |-> <<>>]

\* A finished invocation holds no live locals.
EndedCall(pc) ==
  [pc |-> pc, closure |-> <<>>, message |-> <<>>, config |-> None,
   botMessageId |-> None, fullText |-> <<>>, collectedSources |-> <<>>,
   request |-> None, finalResponseText |-> <<>>, fragments |-> 0,
   chunkLog |-> <<>>, metaLog |-> <<>>]

\* The state of the orchestrator when checked on its own (SpecService).
SvcIdle ==
  [pc |-> "idle", history |-> <<>>, newMessage |-> <<>>, imageContext |-> None,
   config |-> None, request |-> None, finalResponseText |-> <<>>,
   fragments |-> <<>>, sources |-> <<>>, onChunk |-> <<>>, onMetadata |-> <<>>,
   result |-> None]

\* Texts the user can have typed when pressing send.
Messages == { <<"q">> }

\* handleSend of the input box: (!input.trim() && !selectedImage) || isLoading
handleSendRefuses(input, selectedImage, loading) ==
  (Trim(input) = <<>> /\ ~selectedImage) \/ loading

\* handleSendMessage from line 49 to its await of streamGeminiResponse, the
\* orchestrator included up to its first await: the new transcript and the
\* call's locals.  t is Date.now() at line 50, t2 at line 63.
beginExchange(closure, message, imageBase64, config, t, t2) ==
  LET newUserMessage == NewUserMessage(t, message, imageBase64)
      updatedHistory == Append(closure, newUserMessage)
      botMessageId == t2 + 1
  IN [messages |-> Append(updatedHistory, InitialBotMessage(botMessageId, config)),
      call |-> [FreshCall("streaming", <<>>, message, config) EXCEPT
                  !.botMessageId = Some(botMessageId),
                  !.request = Some(requestOf(updatedHistory, message,
                                             imageBase64, config))]]

(* ------------------------------------------------------ markdown renderer *)
\* String.prototype.startsWith / endsWith / slice (negative indices count
\* from the end).
startsWith(s, p) == Len(s) >= Len(p) /\ SubSeq(s, 1, Len(p)) = p
endsWith(s, p) == Len(s) >= Len(p) /\ SubSeq(s, Len(s) - Len(p) + 1, Len(s)) = p
slice(s, a, b) ==
  LET n == Len(s)
      from == IF a < 0 THEN (IF n + a < 0 THEN 0 ELSE n + a)
              ELSE (IF a > n THEN n ELSE a)
      to == IF b < 0 THEN (IF n + b < 0 THEN 0 ELSE n + b)
            ELSE (IF b > n THEN n ELSE b)
  IN IF from >= to THEN <<>> ELSE SubSeq(s, from + 1, to)

\* The grave accent (backtick) of the program's text is written "~" here: a
\* TLA+ string cannot hold the grave accent.
Fence == <<"~", "~", "~">>
Backtick == <<"~">>
Stars == <<"*", "*">>
DashItem == <<"-", " ">>
StarItem == <<"*", " ">>

\* p occurs in s at position i (1-based).
occursAt(s, i, p) == i + Len(p) - 1 <= Len(s) /\ SubSeq(s, i, i + Len(p) - 1) = p

Least(S) == CHOOSE j \in S : \A k \in S : j <= k

\* /```[\s\S]*?```/ tried at position i: the last position of the match, 0 if
\* there is none.  The lazy body stops at the first closing fence.
matchFence(s, i) ==
  IF ~occursAt(s, i, Fence) THEN 0
  ELSE LET closing == {j \in (i + 3)..(Len(s) - 2) : occursAt(s, j, Fence)}
       IN IF closing = {} THEN 0 ELSE Least(closing) + 2

\* /`[^`]+`/ tried at position i: the next backtick closes the span, and at
\* least one character lies between the two.
matchCodeSpan(s, i) ==
  IF ~occursAt(s, i, Backtick) THEN 0
  ELSE LET ticks == {j \in (i + 1)..Len(s) : s[j] = "~"}
       IN IF ticks = {} THEN 0
          ELSE IF Least(ticks) = i + 1 THEN 0 ELSE Least(ticks)

\* /\*\*[^*]+\*\*/ tried at position i: the run of non-star characters after
\* the opening pair is not empty and is followed by a pair of stars.
matchBold(s, i) ==
  IF ~occursAt(s, i, Stars) THEN 0
  ELSE LET stars == {k \in (i + 2)..Len(s) : s[k] = "*"}
       IN IF stars = {} THEN 0
          ELSE IF Least(stars) >= i + 3 /\ occursAt(s, Least(stars), Stars)
                 THEN Least(stars) + 1
                 ELSE 0

\* /\n\n+/ tried at position i: the whole run of newlines, two or more.
matchBlankLines(s, i) ==
  IF ~occursAt(s, i, <<"\n", "\n">>) THEN 0
  ELSE Least({j \in i..Len(s) : j = Len(s) \/ s[j + 1] # "\n"})

matchEnd(separator, s, i) ==
  CASE separator = "fence" -> matchFence(s, i)
    [] separator = "codeSpan" -> matchCodeSpan(s, i)
    [] separator = "bold" -> matchBold(s, i)
    [] separator = "blankLines" -> matchBlankLines(s, i)
    [] separator = "newline" -> IF occursAt(s, i, <<"\n">>) THEN i ELSE 0

\* The separators written with a capturing group: split keeps their matches.
Capturing == {"fence", "codeSpan", "bold"}

\* String.prototype.split: p is where the pending piece starts, q where the
\* separator is tried next.
RECURSIVE splitFrom(_, _, _, _, _)
splitFrom(separator, s, p, q, pieces) ==
  IF q > Len(s) THEN Append(pieces, SubSeq(s, p, Len(s)))
  ELSE LET e == matchEnd(separator, s, q)
       IN IF e = 0 THEN splitFrom(separator, s, p, q + 1, pieces)
          ELSE splitFrom(separator, s, e + 1, e + 1,
                         pieces \o <<SubSeq(s, p, q - 1)>>
                                \o (IF separator \in Capturing
                                      THEN <<SubSeq(s, q, e)>> ELSE <<>>))

split(s, separator) == splitFrom(separator, s, 1, 1, <<>>)

LowerCase ==
  {"a", "b", "c", "d", "e", "f", "g", "h", "i", "j", "k", "l", "m",
   "n", "o", "p", "q", "r", "s", "t", "u", "v", "w", "x", "y", "z"}

\* .replace(/^[a-z]+\n/, '')
removeLanguage(content) ==
  LET stops == {j \in 1..Len(content) : content[j] \notin LowerCase}
      n == IF stops = {} THEN Len(content) ELSE Least(stops) - 1
  IN IF n >= 1 /\ occursAt(content, n + 1, <<"\n">>)
       THEN SubSeq(content, n + 2, Len(content))
       ELSE content

isListItem(s) == startsWith(s, DashItem) \/ startsWith(s, StarItem)

\* One line of a list segment: <li> without its marker, or <span>line<br/>.
renderLine(line) ==
  LET trimmed == Trim(line)
  IN IF isListItem(trimmed)
       THEN <<"li", substring(trimmed, 2, Len(trimmed))>>
       ELSE <<"span", line>>

\* One piece of the split on bold: <strong>, <ul>, or the string itself.
renderBoldSegment(bSeg) ==
  IF startsWith(bSeg, Stars) /\ endsWith(bSeg, Stars)
    THEN <<"strong", slice(bSeg, 2, -2)>>
  ELSE IF isListItem(Trim(bSeg))
    THEN LET lines == split(bSeg, "newline")
         IN <<"ul", [k \in DOMAIN lines |-> renderLine(lines[k])]>>
  ELSE <<"string", bSeg>>

\* One piece of the split on code spans: <code>, or the pieces of its split
\* on bold.
renderCodeSegment(seg) ==
  IF startsWith(seg, Backtick) /\ endsWith(seg, Backtick)
    THEN <<"code", slice(seg, 1, -1)>>
    ELSE LET boldSegments == split(seg, "bold")
         IN <<"segments",
              [j \in DOMAIN boldSegments |-> renderBoldSegment(boldSegments[j])]>>

processInline(str) ==
  LET codeSegments == split(str, "codeSpan")
  IN [i \in DOMAIN codeSegments |-> renderCodeSegment(codeSegments[i])]

\* null for a blank paragraph, else the children of its <p>.
renderParagraph(paragraph) ==
  IF Trim(paragraph) = <<>> THEN None ELSE Some(processInline(paragraph))

\* One piece of the split on fences: a code block, or its paragraphs.
renderPart(part) ==
  IF startsWith(part, Fence) /\ endsWith(part, Fence)
    THEN <<"pre", Trim(removeLanguage(slice(part, 3, -3)))>>
    ELSE LET paragraphs == split(part, "blankLines")
         IN <<"paragraphs",
              [p \in DOMAIN paragraphs |-> renderParagraph(paragraphs[p])]>>

\* null for the empty text, else one node per piece.
renderMarkdown(text) ==
  IF text = <<>> THEN None
  ELSE LET parts == split(text, "fence")
       IN Some([index \in DOMAIN parts |-> renderPart(parts[index])])

\* The bubble of a model turn: its text, what renderMarkdown made of it, and
\* the number of deltas the text has grown by.
Bubble(text, deltas) ==
  [text |-> text, rendered |-> renderMarkdown(text), deltas |-> deltas]
NoBubble == Bubble(<<>>, 0)

(* ------------------------------------------------------ endpoint fragments *)
TitleX == <<"X">>
TitleY == <<"Y">>
Uri1 == <<"1">>
Uri2 == <<"2">>

FragText == Fragment(Some(<<"a">>), None)
FragTextCited ==
  Fragment(Some(<<"b">>),
           Cited(<<WebChunk(Some(TitleX), Some(Uri1)),
                   WebChunk(Some(TitleY), Some(Uri1))>>))
FragCited ==
  Fragment(None,
           Cited(<<WebChunk(Some(TitleY), Some(Uri1)), OtherChunk,
                   WebChunk(None, Some(Uri2)), WebChunk(Some(<<>>), None),
                   WebChunk(Some(TitleX), None)>>))
FragNoUri ==
  Fragment(Some(<<>>),
           Cited(<<WebChunk(Some(<<>>), None), WebChunk(Some(TitleX), None)>>))
FragEmpty == Fragment(Some(<<>>), Some(<<>>))
FragNoCitations == Fragment(Some(<<"a">>), Cited(<<>>))
FragNoChunks ==
  Fragment(Some(<<"a", "b">>),
           Some(<< [groundingMetadata |-> Some([groundingChunks |-> None])] >>))

\* Fragments the endpoint may yield: to the controller's sessions, and to the
\* orchestrator checked on its own.
Fragments == { FragText, FragTextCited, FragCited }
ServiceFragments ==
  Fragments \cup { FragNoUri, FragEmpty, FragNoChunks, FragNoCitations }
RaceFragments == { FragTextCited }

(* ------------------------------------------------------------------ actions *)
Init ==
  /\ messages = <<WelcomeTurn>>
  /\ isLoading = FALSE
  /\ now = 0
  /\ calls = <<>>
  /\ svc = SvcIdle
  /\ md = NoBubble

\* A send without attachment: handleSend, then handleSendMessage runs without
\* suspending up to its await of streamGeminiResponse.  d is the time that
\* passes between the two reads of Date.now() at lines 50 and 63.
SendText(message, config, d) ==
  /\ ~handleSendRefuses(message, FALSE, isLoading)
  /\ ~isLoading
  /\ LET b == beginExchange(messages, message, None, config, now, now + d)
     IN /\ messages' = b.messages
        /\ calls' = Append(calls, b.call)
  /\ isLoading' = TRUE
  /\ now' = now + d
  /\ UNCHANGED <<svc, md>>

\* A send with an attachment: handleSendMessage suspends on fileToGenerativePart.
SendImage(message, config) ==
  /\ ~handleSendRefuses(message, TRUE, isLoading)
  /\ ~isLoading
  /\ calls' = Append(calls, FreshCall("reading", messages, message, config))
  /\ UNCHANGED <<messages, isLoading, now, svc, md>>

\* The attachment read resolves; handleSendMessage resumes at line 49.
ReadDone(c, d) ==
  /\ calls[c].pc = "reading"
  /\ LET b == beginExchange(calls[c].closure, calls[c].message,
                            Some(fileToGenerativePart(TRUE)),
                            calls[c].config[1], now, now + d)
     IN /\ messages' = b.messages
        /\ calls' = [calls EXCEPT ![c] = b.call]
  /\ isLoading' = TRUE
  /\ now' = now + d
  /\ UNCHANGED <<svc, md>>

\* The attachment read rejects; handleSendMessage logs and returns.
ReadFail(c) ==
  /\ calls[c].pc = "reading"
  /\ calls' = [calls EXCEPT ![c] = EndedCall("aborted")]
  /\ UNCHANGED <<messages, isLoading, now, svc, md>>

\* The endpoint yields a fragment: one iteration of the orchestrator's loop with
\* the onChunk and onMetadata callbacks it invokes.
StreamFragment(c, frag) ==
  /\ calls[c].pc = "streaming"
  /\ LET call == calls[c]
         id == call.botMessageId[1]
         r == consumeFragment(call.finalResponseText, frag)
         fullText == IF r.onChunk # <<>>
                       THEN appendChunk(call.fullText, r.onChunk[1])
                       ELSE call.fullText
         afterChunk == IF r.onChunk # <<>>
                         THEN setText(messages, id, fullText)
                         ELSE messages
         collectedSources == IF r.onMetadata # <<>>
                               THEN mergeSources(call.collectedSources, r.onMetadata[1])
                               ELSE call.collectedSources
         afterMetadata == IF r.onMetadata # <<>>
                            THEN setSources(afterChunk, id, collectedSources)
                            ELSE afterChunk
     IN /\ messages' = afterMetadata
        /\ calls' = [calls EXCEPT ![c] =
                       [call EXCEPT !.finalResponseText = r.finalResponseText,
                                    !.fragments = @ + 1,
                                    !.fullText = fullText,
                                    !.collectedSources = collectedSources,
                                    !.chunkLog = @ \o r.onChunk,
                                    !.metaLog = @ \o r.onMetadata]]
  /\ UNCHANGED <<isLoading, now, svc, md>>

\* The stream ends: streamGeminiResponse returns, the turn is finalized, finally.
StreamEnd(c) ==
  /\ calls[c].pc = "streaming"
  /\ messages' = finalizeMessage(messages, calls[c].botMessageId[1])
  /\ isLoading' = FALSE
  /\ calls' = [calls EXCEPT ![c] = [EndedCall("done") EXCEPT
                                      !.fragments = calls[c].fragments]]
  /\ UNCHANGED <<now, svc, md>>

\* The endpoint or transport fails: streamGeminiResponse rethrows, catch, finally.
StreamFail(c) ==
  /\ calls[c].pc = "streaming"
  /\ messages' = errorMessage(messages, calls[c].botMessageId[1])
  /\ isLoading' = FALSE
  /\ calls' = [calls EXCEPT ![c] = [EndedCall("failed") EXCEPT
                                      !.fragments = calls[c].fragments]]
  /\ UNCHANGED <<now, svc, md>>

\* A clear that keeps the transcript and appends the notice.
clearChatAppended(prev, confirmed, t) ==
  IF confirmed THEN Append(prev, ClearedTurn(t)) ELSE prev

\* The transcript handleClearChat leaves: window.confirm answered `confirmed'.
clearChat(prev, confirmed, t) ==
  IF confirmed THEN <<ClearedTurn(t)>> ELSE prev

\* handleClearChat: the confirmation dialog is answered, accepted or declined.
HandleClearChat(confirmed) ==
  /\ messages' = clearChat(messages, confirmed, now)
  /\ UNCHANGED <<isLoading, now, calls, svc, md>>

\* A millisecond passes.
Tick ==
  /\ now' = now + 1
  /\ UNCHANGED <<messages, isLoading, calls, svc, md>>

\* Fragments delivered so far, over all calls.
RECURSIVE SumFragments(_)
SumFragments(cs) ==
  IF cs = <<>> THEN 0 ELSE Head(cs).fragments + SumFragments(Tail(cs))

Next ==
  \/ /\ Len(calls) < MaxSends
     /\ \E message \in Messages, config \in Configs, d \in {0, 1} :
          now + d <= MaxClock /\ SendText(message, config, d)
  \/ /\ Len(calls) < MaxSends
     /\ \E message \in Messages, config \in Configs : SendImage(message, config)
  \/ \E c \in DOMAIN calls, d \in {0, 1} : now + d <= MaxClock /\ ReadDone(c, d)
  \/ \E c \in DOMAIN calls : ReadFail(c)
  \/ \E c \in DOMAIN calls, frag \in Fragments :
       SumFragments(calls) < MaxFrags /\ StreamFragment(c, frag)
  \/ \E c \in DOMAIN calls : StreamEnd(c)
  \/ \E c \in DOMAIN calls : StreamFail(c)
  \/ \E confirmed \in BOOLEAN : HandleClearChat(confirmed)
  \/ now < MaxClock /\ Tick

Spec == Init /\ [][Next]_vars

NextRace ==
  \/ /\ Len(calls) < MaxRaceSends
     /\ \E message \in Messages, config \in Configs : SendText(message, config, 0)
  \/ /\ Len(calls) < MaxRaceSends
     /\ \E message \in Messages, config \in Configs : SendImage(message, config)
  \/ \E c \in DOMAIN calls : ReadDone(c, 0)
  \/ \E c \in DOMAIN calls : ReadFail(c)
  \/ \E c \in DOMAIN calls, frag \in RaceFragments :
       SumFragments(calls) < MaxRaceFrags /\ StreamFragment(c, frag)
  \/ \E c \in DOMAIN calls : StreamEnd(c)
  \/ \E c \in DOMAIN calls : StreamFail(c)
  \/ \E confirmed \in BOOLEAN : HandleClearChat(confirmed)
  \/ now < MaxRaceClock /\ Tick

SpecRace == Init /\ [][NextRace]_vars

(* ------------------------------------------ the orchestrator on its own *)
\* Turns a caller may pass in the history: a user turn with an attachment, a
\* finished model turn, a model turn still streaming.
SampleTurns ==
  { Turn(0, USER, <<"q">>, Some(ImageDataUrl), None, None, None),
    Turn(1, MODEL, <<"a">>, None, Some(FALSE), None, Some(<<>>)),
    Turn(2, MODEL, <<"p">>, None, Some(TRUE), None, Some(<<>>)) }

Histories == UNION { [1..n -> SampleTurns] : n \in 0..MaxHistory }

\* ModelConfig snapshots the orchestrator is run with.
ServiceConfigs ==
  { [useSearch |-> FALSE, useThinking |-> FALSE],
    [useSearch |-> TRUE, useThinking |-> TRUE] }

SvcInit ==
  /\ messages = <<WelcomeTurn>>
  /\ isLoading = FALSE
  /\ now = 0
  /\ calls = <<>>
  /\ md = NoBubble
  /\ \E history \in Histories, imageContext \in {None, Some(ImageDataUrl)},
        config \in ServiceConfigs :
       svc = [SvcIdle EXCEPT !.pc = "called", !.history = history,
                             !.newMessage = <<"q">>,
                             !.imageContext = imageContext,
                             !.config = Some(config)]

\* streamGeminiResponse up to its await of chat.sendMessageStream.
SvcStart ==
  /\ svc.pc = "called"
  /\ svc' = [svc EXCEPT !.pc = "streaming",
                        !.request = Some(requestOf(svc.history, svc.newMessage,
                                                   svc.imageContext, svc.config[1]))]
  /\ UNCHANGED <<messages, isLoading, now, calls, md>>

\* One iteration of the for-await loop.
SvcFragment(frag) ==
  /\ svc.pc = "streaming"
  /\ LET r == consumeFragment(svc.finalResponseText, frag)
     IN svc' = [svc EXCEPT !.finalResponseText = r.finalResponseText,
                           !.fragments = Append(@, frag),
                           !.sources = Append(@, r.sources),
                           !.onChunk = @ \o r.onChunk,
                           !.onMetadata = @ \o r.onMetadata]
  /\ UNCHANGED <<messages, isLoading, now, calls, md>>

\* The stream is exhausted: return finalResponseText.
SvcReturn ==
  /\ svc.pc = "streaming"
  /\ svc' = [svc EXCEPT !.pc = "returned", !.result = Some(svc.finalResponseText)]
  /\ UNCHANGED <<messages, isLoading, now, calls, md>>

\* The endpoint or transport fails: the catch block logs and rethrows.
SvcThrow ==
  /\ svc.pc = "streaming"
  /\ svc' = [svc EXCEPT !.pc = "thrown"]
  /\ UNCHANGED <<messages, isLoading, now, calls, md>>

NextService ==
  \/ SvcStart
  \/ \E frag \in ServiceFragments :
       Len(svc.fragments) < MaxSvcFrags /\ SvcFragment(frag)
  \/ SvcReturn
  \/ SvcThrow

SpecService == SvcInit /\ [][NextService]_vars

(* ---------------------------------------------- the renderer on its own *)
\* Pieces a streamed text grows by: the markers of the grammar, a letter, the
\* lines "js" and "c++", a blank line, a list marker, a space.
Deltas ==
  { Fence, Backtick, Stars, <<"a">>, <<"j", "s", "\n">>, <<"c", "+", "+", "\n">>,
    <<"\n", "\n">>, DashItem, <<" ">> }

RenderInit ==
  /\ messages = <<WelcomeTurn>>
  /\ isLoading = FALSE
  /\ now = 0
  /\ calls = <<>>
  /\ svc = SvcIdle
  /\ md = NoBubble

\* The text of a model turn grows by a delta and MessageBubble renders it again.
MessageBubble(chunkText) ==
  /\ md' = Bubble(md.text \o chunkText, md.deltas + 1)
  /\ UNCHANGED <<messages, isLoading, now, calls, svc>>

NextRender ==
  \E chunkText \in Deltas : md.deltas < MaxDeltas /\ MessageBubble(chunkText)

SpecRender == RenderInit /\ [][NextRender]_vars

(* ------------------------------------------------------------- properties *)
\* Concatenation of a list of lists, in order.
RECURSIVE Flatten(_)
Flatten(ss) == IF ss = <<>> THEN <<>> ELSE Head(ss) \o Flatten(Tail(ss))

\* The n-th smallest member of a set of indices.
Nth(S, n) == CHOOSE j \in S : Cardinality({k \in S : k <= j}) = n

\* seq restricted to the indices in S, order kept.
Restrict(seq, S) == [n \in 1..Cardinality(S) |-> seq[Nth(S, n)]]

StreamingTurns == {i \in DOMAIN messages : messages[i].isStreaming = Some(TRUE)}

InFlight(c) == calls[c].pc \in {"reading", "streaming"}

Ended(c) == calls[c].pc \in {"done", "failed", "aborted"}

\* C1: in every reachable state at most one Turn of the Transcript has
\* isStreaming = true.
C1_AtMostOneStreaming == Cardinality(StreamingTurns) <= 1

\* C2: while an accepted send has not finished (it awaits its attachment read
\* or its stream), no step accepts another send: the list of accepted sends
\* does not grow.
C2_SendWhileInFlightIsNoOp ==
  [][(\E c \in DOMAIN calls : InFlight(c)) => Len(calls') = Len(calls)]_vars

\* C3: after every onChunk call of an exchange, each Turn of the Transcript
\* that carries the exchange's botMessageId has as text the concatenation, in
\* call order, of all deltas passed to onChunk so far in that exchange.
C3_TextIsConcatenationOfDeltas ==
  [][\A c \in DOMAIN calls :
       (calls[c].pc = "streaming" /\ calls'[c].pc = "streaming"
          /\ calls'[c].chunkLog # calls[c].chunkLog)
       => /\ Len(calls'[c].chunkLog) = Len(calls[c].chunkLog) + 1
          /\ \A i \in DOMAIN messages' :
               messages'[i].id = calls'[c].botMessageId[1]
               => messages'[i].text = Flatten(calls'[c].chunkLog)]_vars

C3_Witness ==
  \E c \in DOMAIN calls :
    /\ calls[c].pc = "streaming"
    /\ Len(calls[c].chunkLog) >= 2
    /\ calls[c].chunkLog[1] # calls[c].chunkLog[2]
    /\ \E i \in DOMAIN messages :
         /\ messages[i].id = calls[c].botMessageId[1]
         /\ messages[i].isStreaming = Some(TRUE)
         /\ messages[i].text = Flatten(calls[c].chunkLog)

\* The sources of a list that are the first of their uri, in order of arrival.
FirstOfUri(seen) ==
  Restrict(seen, {j \in DOMAIN seen : \A k \in 1..(j - 1) : seen[k].uri # seen[j].uri})

NoTwoWithEqualUri(gs) ==
  \A j, k \in DOMAIN gs : j # k => gs[j].uri # gs[k].uri

\* C4: after every onMetadata call of an exchange, each Turn that carries the
\* exchange's botMessageId has groundingSources with no two entries of equal
\* uri, holding exactly the first-arrived source (with its title) of every
\* distinct uri passed to onMetadata so far, in order of first arrival.
C4_SourcesAreFirstOccurrences ==
  [][\A c \in DOMAIN calls :
       (calls[c].pc = "streaming" /\ calls'[c].pc = "streaming"
          /\ calls'[c].metaLog # calls[c].metaLog)
       => \A i \in DOMAIN messages' :
            messages'[i].id = calls'[c].botMessageId[1]
            => /\ messages'[i].groundingSources # None
               /\ NoTwoWithEqualUri(messages'[i].groundingSources[1])
               /\ messages'[i].groundingSources[1]
                    = FirstOfUri(Flatten(calls'[c].metaLog))]_vars

C4_Witness ==
  \E c \in DOMAIN calls :
    /\ calls[c].pc = "streaming"
    /\ Len(calls[c].metaLog) >= 2
    /\ \E i \in DOMAIN messages :
         /\ messages[i].id = calls[c].botMessageId[1]
         /\ messages[i].isStreaming = Some(TRUE)
         /\ messages[i].groundingSources # None
         /\ Len(messages[i].groundingSources[1]) < Len(Flatten(calls[c].metaLog))
         /\ \E j \in DOMAIN messages[i].groundingSources[1] :
              /\ messages[i].groundingSources[1][j].uri = Some(Uri1)
              /\ messages[i].groundingSources[1][j].title = TitleY
         /\ \E k \in DOMAIN calls[c].metaLog[2] :
              /\ calls[c].metaLog[2][k].uri = Some(Uri1)
              /\ calls[c].metaLog[2][k].title = TitleX

\* C5: when the stream of an exchange fails, each Turn that carries the
\* exchange's botMessageId ends with the error text, isStreaming = false and
\* no grounding sources.
C5_FailureDiscardsPartial ==
  [][\A c \in DOMAIN calls :
       (calls[c].pc = "streaming" /\ calls'[c].pc = "failed")
       => \A i \in DOMAIN messages' :
            messages'[i].id = calls[c].botMessageId[1]
            => /\ messages'[i].text = ErrorText
               /\ messages'[i].isStreaming = Some(FALSE)
               /\ messages'[i].groundingSources \in {None, Some(<<>>)}]_vars

\* C6: once every accepted send has ended, no Turn is streaming and the
\* loading flag is false.
C6_NoTurnLeftStreaming ==
  (\A c \in DOMAIN calls : Ended(c)) => (StreamingTurns = {} /\ ~isLoading)

\* C7: every step other than a confirmed clear keeps each Turn of the
\* Transcript at its position (by id) and can only append after them.
C7_AppendOnlyExceptClear ==
  [][HandleClearChat(TRUE)
       \/ (/\ Len(messages') >= Len(messages)
           /\ \A i \in DOMAIN messages : messages'[i].id = messages[i].id)]_vars

\* C8: the Turn ids of every reachable Transcript are pairwise distinct.
C8_IdsPairwiseDistinct ==
  \A i, j \in DOMAIN messages : i # j => messages[i].id # messages[j].id

\* The texts of the fragments that carry a non-empty text, in arrival order.
carriesText(frag) == frag.text # None /\ Len(frag.text[1]) > 0
TextsOf(frags) ==
  LET S == {i \in DOMAIN frags : carriesText(frags[i])}
  IN [n \in 1..Cardinality(S) |-> frags[Nth(S, n)].text[1]]

\* C9: the onChunk calls of a run are exactly the texts of the fragments that
\* carry non-empty text, one call each, in arrival order; a run that returns,
\* returns their concatenation.
C9_OnChunkPerTextFragment ==
  /\ svc.onChunk = TextsOf(svc.fragments)
  /\ svc.pc = "returned" => svc.result = Some(Flatten(TextsOf(svc.fragments)))

C9_Witness ==
  /\ svc.pc = "returned"
  /\ Len(svc.fragments) = 3
  /\ Len(svc.onChunk) = 2
  /\ svc.onChunk[1] # svc.onChunk[2]
  /\ ~carriesText(svc.fragments[2])
  /\ svc.result = Some(svc.onChunk[1] \o svc.onChunk[2])

\* C10: the history handed to the endpoint is the wire form of exactly the
\* turns of the passed history that are not marked isStreaming = true, in
\* order: no streaming turn is in it.
C10_HistoryExcludesStreaming ==
  svc.request # None
  => svc.request[1].history
       = Restrict([i \in DOMAIN svc.history |-> wireOf(svc.history[i])],
                  {i \in DOMAIN svc.history : svc.history[i].isStreaming # Some(TRUE)})

C10_Witness ==
  /\ svc.request # None
  /\ \E i \in DOMAIN svc.history : svc.history[i].isStreaming = Some(TRUE)
  /\ \E i \in DOMAIN svc.history : svc.history[i].isStreaming # Some(TRUE)
  /\ Len(svc.request[1].history) < Len(svc.history)
  /\ Len(svc.request[1].history) >= 1

\* C11: a step of handleClearChat with the confirmation accepted leaves a
\* Transcript of exactly one Turn, a model Turn made at that moment and not
\* streaming, whatever the Transcript held; with the confirmation declined
\* it leaves the Transcript as it was.
C11_ClearReplacesTranscript ==
  [][\A confirmed \in BOOLEAN :
       HandleClearChat(confirmed)
       => IF confirmed
            THEN /\ Len(messages') = 1
                 /\ messages'[1].role = MODEL
                 /\ messages'[1].id = now
                 /\ messages'[1].text = ClearedText
                 /\ ~Truthy(messages'[1].isStreaming)
            ELSE messages' = messages]_vars

\* The Transcript was cleared while a Turn was open and receiving deltas.
C11_Witness ==
  /\ Len(messages) = 1
  /\ messages[1].text = ClearedText
  /\ messages[1].role = MODEL
  /\ \E c \in DOMAIN calls :
       /\ calls[c].pc = "streaming"
       /\ calls[c].fragments >= 1
       /\ calls[c].botMessageId # Some(messages[1].id)

\* The citation chunks a fragment carries: none when any link of
\* candidates[0].groundingMetadata.groundingChunks is missing.
ChunksIn(frag) ==
  IF /\ frag.candidates # None
     /\ Len(frag.candidates[1]) >= 1
     /\ frag.candidates[1][1].groundingMetadata # None
     /\ frag.candidates[1][1].groundingMetadata[1].groundingChunks # None
    THEN frag.candidates[1][1].groundingMetadata[1].groundingChunks[1]
    ELSE <<>>

\* One entry per chunk that references a web citation, in chunk order, the
\* title given by TitleRule.
EntriesOf(chunks, TitleRule(_)) ==
  Restrict([i \in DOMAIN chunks |->
              IF chunks[i].web # None
                THEN [title |-> TitleRule(chunks[i].web[1].title),
                      uri |-> chunks[i].web[1].uri]
                ELSE [title |-> <<>>, uri |-> None]],
           {i \in DOMAIN chunks : chunks[i].web # None})

TitleUnlessAbsent(title) == IF Len(title) = 0 THEN WebSourceTitle ELSE title[1]
TitleUnlessAbsentOrEmpty(title) ==
  IF Len(title) = 0 THEN WebSourceTitle
  ELSE IF Len(title[1]) = 0 THEN WebSourceTitle ELSE title[1]

\* C12 as stated: for every fragment the extractor returns one entry per web
\* chunk, in chunk order and without deduplication (none for absent or empty
\* citation data), with the chunk's uri, and with the chunk's title whenever
\* the chunk has a title, "Web Source" only when the title is absent.
C12_TitleKeptUnlessAbsent ==
  \A i \in DOMAIN svc.fragments :
    svc.sources[i] = EntriesOf(ChunksIn(svc.fragments[i]), TitleUnlessAbsent)

\* C12 amended: the same, with "Web Source" when the title is absent or is
\* the empty string, and the chunk's title when it is a non-empty string.
C12_TitleKeptUnlessAbsentOrEmpty ==
  \A i \in DOMAIN svc.fragments :
    svc.sources[i] = EntriesOf(ChunksIn(svc.fragments[i]), TitleUnlessAbsentOrEmpty)

\* One run has met a fragment without citation data, one whose two web chunks
\* share a uri, and one with a non-web chunk, an absent and an empty title.
C12_Witness ==
  /\ \E i \in DOMAIN svc.fragments :
       /\ ChunksIn(svc.fragments[i]) = <<>>
       /\ svc.sources[i] = <<>>
  /\ \E i \in DOMAIN svc.fragments :
       /\ Len(svc.sources[i]) = 2
       /\ svc.sources[i][1].uri = svc.sources[i][2].uri
       /\ svc.sources[i][1].title # svc.sources[i][2].title
  /\ \E i \in DOMAIN svc.fragments :
       LET chunks == ChunksIn(svc.fragments[i])
       IN /\ Len(svc.sources[i]) < Len(chunks)
          /\ \E k \in DOMAIN chunks :
               chunks[k].web # None /\ chunks[k].web[1].title = None
          /\ \E k \in DOMAIN chunks :
               chunks[k].web # None /\ chunks[k].web[1].title = Some(<<>>)
          /\ Cardinality({k \in DOMAIN svc.sources[i] :
                            svc.sources[i][k].title = WebSourceTitle}) = 2

\* The wire form of the turns of a transcript that are not streaming.
WireOfSettled(turns) ==
  Restrict([i \in DOMAIN turns |-> wireOf(turns[i])],
           {i \in DOMAIN turns : turns[i].isStreaming # Some(TRUE)})

\* C15: on the step that opens an exchange, the history handed to the
\* endpoint is made of the Turns the handler saw before this send (its prior
\* Transcript) only: the new user Turn, whose text goes out as the outgoing
\* message, is not in it, so the text reaches the endpoint once.
C15_HistoryIsPriorTranscript ==
  [][\A c \in DOMAIN calls' :
       (/\ calls'[c].pc = "streaming"
        /\ IF c \in DOMAIN calls THEN calls[c].pc = "reading" ELSE TRUE)
       => LET prior == IF c \in DOMAIN calls THEN calls[c].closure ELSE messages
          IN calls'[c].request[1].history = WireOfSettled(prior)]_vars

\* The characters of s that are not whitespace, in order.
NonSpace(s) == Restrict(s, {i \in DOMAIN s : ~IsSpace(s[i])})

\* The text a rendered node shows.
LineText(node) == node[2]
BoldSegmentText(node) ==
  IF node[1] = "ul"
    THEN Flatten([k \in DOMAIN node[2] |-> LineText(node[2][k])])
    ELSE node[2]
CodeSegmentText(node) ==
  IF node[1] = "code" THEN node[2]
  ELSE Flatten([j \in DOMAIN node[2] |-> BoldSegmentText(node[2][j])])
ParagraphText(p) ==
  IF p = None THEN <<>>
  ELSE Flatten([i \in DOMAIN p[1] |-> CodeSegmentText(p[1][i])])
PartText(node) ==
  IF node[1] = "pre" THEN node[2]
  ELSE Flatten([p \in DOMAIN node[2] |-> ParagraphText(node[2][p])])
TextOf(rendered) ==
  IF rendered = None THEN <<>>
  ELSE Flatten([n \in DOMAIN rendered[1] |-> PartText(rendered[1][n])])

\* Where the first complete fence of a text opens and closes (0: none).
FenceStarts(text) == {i \in DOMAIN text : matchFence(text, i) # 0}
FirstFenceOpen(text) ==
  IF FenceStarts(text) = {} THEN 0 ELSE Least(FenceStarts(text))
FirstFenceEnd(text) == matchFence(text, FirstFenceOpen(text))

\* Characters of a language tag: letters, digits, + and # (js, c++, c#).
TagChars ==
  LowerCase \cup {"+", "#", "0", "1", "2", "3", "4", "5", "6", "7", "8", "9"}

\* The fenced text without the tag of the opening fence: the first line, when
\* it is a non-empty run of Allowed characters ended by a newline.
WithoutTag(inner, Allowed) ==
  LET stops == {j \in DOMAIN inner : inner[j] \notin Allowed}
      n == IF stops = {} THEN Len(inner) ELSE Least(stops) - 1
  IN IF n >= 1 /\ n < Len(inner) /\ inner[n + 1] = "\n"
       THEN SubSeq(inner, n + 2, Len(inner))
       ELSE inner

\* A text with a complete fence is rendered as: the paragraphs of the text
\* before the fence, one code block holding the fenced text without its
\* language tag (of Allowed characters) and trimmed, then the rest.
FenceRendered(text, rendered, Allowed) ==
  LET open == FirstFenceOpen(text)
      end == FirstFenceEnd(text)
      inner == SubSeq(text, open + 3, end - 3)
      after == SubSeq(text, end + 1, Len(text))
      nodes == rendered[1]
  IN open # 0
     => /\ rendered # None
        /\ Len(nodes) >= 3
        /\ nodes[1][1] = "paragraphs"
        /\ nodes[2][1] = "pre"
        /\ nodes[2][2] = Trim(WithoutTag(inner, Allowed))
        /\ (\A i \in DOMAIN after : after[i] # "~")
             => /\ Len(nodes) = 3
                /\ nodes[3][1] = "paragraphs"

\* C13: for every text with a complete fence the fenced text becomes one
\* code block whose content is the text between the fences with the language
\* tag of the opening fence removed and the rest trimmed, taken verbatim (no
\* bold, code-span or list parsing), and the text before and after the fence
\* is rendered apart from it, as paragraphs.
C13_FenceBecomesCodeBlock == FenceRendered(md.text, md.rendered, TagChars)

\* The markers of a text: all its backticks, all its stars.
Backticks(text) == {i \in DOMAIN text : text[i] = "~"}
StarsIn(text) == {i \in DOMAIN text : text[i] = "*"}
Consecutive(S) == S # {} /\ \A i \in S : i = Least(S) \/ i - 1 \in S

\* A text whose only markup is unterminated: one backtick or one fence
\* marker, and/or one pair of stars, at least one of them, and no list dash.
OnlyUnterminated(text) ==
  LET ticks == Backticks(text)
      stars == StarsIn(text)
  IN /\ ticks = {} \/ (Cardinality(ticks) \in {1, 3} /\ Consecutive(ticks))
     /\ stars = {} \/ (Cardinality(stars) = 2 /\ Consecutive(stars))
     /\ ticks # {} \/ stars # {}
     /\ \A i \in DOMAIN text : text[i] # "-"

\* C14: a text whose markup is an unterminated fence, an unterminated bold
\* marker or an unterminated code span is rendered as literal text: every
\* non-whitespace character of the text, markers included, is in the output.
C14_UnterminatedKeptLiteral ==
  OnlyUnterminated(md.text)
  => /\ md.rendered # None
     /\ NonSpace(TextOf(md.rendered)) = NonSpace(md.text)

====
